---- MODULE Spec2Model ----
(***************************************************************************)
(* Task management dashboard (src/src/App.tsx): the App component's state, *)
(* its event handlers, the localStorage mirror of the task list and the    *)
(* grouped projection the component renders.                               *)
(*                                                                         *)
(* Every handler runs to completion, React re-renders and flushes the      *)
(* save effect before the next event is dispatched, so one action is one   *)
(* event: handler, re-render (view) and effect (storage).                  *)
(***************************************************************************)
EXTENDS Integers, Sequences, FiniteSets, TLC

VARIABLES
    phase,        \* "init" before the first render, "ready" once mounted, "crashed" when the first render threw
    error,        \* the exception the first render threw, or "none"
    storage,      \* localStorage's entry under the key "tasks"
    tasks,        \* useState<Task[]>
    taskName,     \* useState("")
    priority,     \* useState<Task["priority"]>("Medium")
    dueDate,      \* useState("")
    editingTask,  \* useState<Task | null>(null): <<>> is null, <<t>> is the task t
    now,          \* the last value read from the time source (Date.now())
    view,         \* what the last render produced of the task list column
    lastEvent     \* the event whose handling produced this state

vars == <<phase, error, storage, tasks, taskName, priority, dueDate,
          editingTask, now, view, lastEvent>>

----------------------------------------------------------------------------
(* Bounds of the model *)

MaxTasks == 2
MaxClock == 2

(* Values the form fields take: "" is the empty input *)
Names == {"", "a"}
Dates == {"", "d"}
Priorities == {"Low", "Medium", "High"}

----------------------------------------------------------------------------
(* Task and the nullable editingTask *)

Task(id, name, prio, due) ==
    [id |-> id, name |-> name, priority |-> prio, dueDate |-> due]

NULL == <<>>

Range(s) == {s[i] : i \in DOMAIN s}

(* Date.now().toString() *)
Digits == <<"0", "1", "2", "3", "4", "5", "6", "7", "8", "9">>

NumToString(n) == Digits[n + 1]

IdUniverse == {NumToString(n) : n \in 0..MaxClock}

----------------------------------------------------------------------------
(* localStorage and JSON.  A string is the sequence of its lexical tokens; *)
(* the punctuation inside an object is left out of the token sequence.     *)

Absent == [present |-> FALSE, value |-> <<>>]

Stored(text) == [present |-> TRUE, value |-> text]

(* JSON.stringify of one Task: its fields in declaration order *)
StringifyTask(t) ==
    <<"{", "id", t.id, "name", t.name, "priority", t.priority,
      "dueDate", t.dueDate, "}">>

RECURSIVE StringifyItems(_, _)
StringifyItems(ts, i) ==
    IF i > Len(ts) THEN <<>>
    ELSE IF i = Len(ts) THEN StringifyTask(ts[i])
    ELSE StringifyTask(ts[i]) \o <<",">> \o StringifyItems(ts, i + 1)

(* JSON.stringify(tasks) *)
JSONstringify(ts) == <<"[">> \o StringifyItems(ts, 1) \o <<"]">>

(* An object of the shape stringify writes starts at token i *)
ObjectAt(text, i) ==
    /\ i + 9 <= Len(text)
    /\ text[i] = "{"
    /\ text[i + 1] = "id"
    /\ text[i + 3] = "name"
    /\ text[i + 5] = "priority"
    /\ text[i + 7] = "dueDate"
    /\ text[i + 9] = "}"

SyntaxError == [ok |-> FALSE, isArray |-> FALSE, items |-> <<>>]

RECURSIVE ParseElements(_, _, _)
ParseElements(text, i, acc) ==
    IF ~ObjectAt(text, i) THEN SyntaxError
    ELSE LET obj  == Task(text[i + 2], text[i + 4], text[i + 6], text[i + 8])
             next == i + 10
         IN  IF next = Len(text) /\ text[next] = "]"
                 THEN [ok |-> TRUE, isArray |-> TRUE, items |-> Append(acc, obj)]
             ELSE IF next < Len(text) /\ text[next] = ","
                 THEN ParseElements(text, next + 1, Append(acc, obj))
             ELSE SyntaxError

(* JSON.parse(text): the value, or the SyntaxError it throws *)
JSONparse(text) ==
    IF text = <<"null">>
        THEN [ok |-> TRUE, isArray |-> FALSE, items |-> <<>>]
    ELSE IF text = <<"[", "]">>
        THEN [ok |-> TRUE, isArray |-> TRUE, items |-> <<>>]
    ELSE IF Len(text) >= 2 /\ text[1] = "["
        THEN ParseElements(text, 2, <<>>)
    ELSE SyntaxError

(* What an earlier session, or anything else, may have left under "tasks" *)
SavedTask == Task("0", "z", "Low", "c")

UntypedTask == Task("0", "z", "Urgent", "c")

InitialStorage ==
    { Absent,
      Stored(<<>>),
      Stored(JSONstringify(<<>>)),
      Stored(JSONstringify(<<SavedTask>>)),
      Stored(JSONstringify(<<UntypedTask>>)),
      Stored(<<"null">>),
      Stored(<<"[", "{", "id">>) }

----------------------------------------------------------------------------
(* The grouped projection *)

(* tasks.reduce((acc, task) => ...), from element i on *)
RECURSIVE ReduceByPriority(_, _, _)
ReduceByPriority(ts, i, acc) ==
    IF i > Len(ts) THEN acc
    ELSE LET task == ts[i]
             acc1 == IF task.priority \in DOMAIN acc
                         THEN acc
                         ELSE acc @@ (task.priority :> <<>>)
             acc2 == [acc1 EXCEPT ![task.priority] = Append(@, task)]
         IN  ReduceByPriority(ts, i + 1, acc2)

EmptyRecord == [p \in {} |-> <<>>]

(* acc[task.priority] = [task]: each bucket keeps only its last task *)
groupedTasksOverwrite(ts) ==
    [p \in {ts[i].priority : i \in DOMAIN ts} |->
        LET hits == {i \in DOMAIN ts : ts[i].priority = p}
        IN  <<ts[CHOOSE i \in hits : \A j \in hits : j <= i]>>]

(* acc[task.priority].unshift(task): each bucket in reverse list order *)
RECURSIVE ReduceByPriorityUnshift(_, _, _)
ReduceByPriorityUnshift(ts, i, acc) ==
    IF i > Len(ts) THEN acc
    ELSE LET task == ts[i]
             acc1 == IF task.priority \in DOMAIN acc
                         THEN acc
                         ELSE acc @@ (task.priority :> <<>>)
             acc2 == [acc1 EXCEPT ![task.priority] = <<task>> \o @]
         IN  ReduceByPriorityUnshift(ts, i + 1, acc2)

groupedTasksUnshift(ts) == ReduceByPriorityUnshift(ts, 1, EmptyRecord)

groupedTasks(ts) == ReduceByPriority(ts, 1, EmptyRecord)

priorityOrderAlphabetical == <<"High", "Low", "Medium">>

priorityOrder == <<"High", "Medium", "Low">>

(* priorityOrder.map(level => groupedTasks[level] && <section>): the sections rendered *)
RECURSIVE Sections(_, _)
Sections(grouped, i) ==
    IF i > Len(priorityOrder) THEN <<>>
    ELSE LET priorityLevel == priorityOrder[i]
         IN  IF priorityLevel \in DOMAIN grouped
                 THEN <<[priorityLevel |-> priorityLevel,
                         tasks |-> grouped[priorityLevel]]>>
                      \o Sections(grouped, i + 1)
                 ELSE Sections(grouped, i + 1)

(* The message shown whenever no section is *)
EmptyMessageIfNoSections(ts) == Sections(groupedTasks(ts), 1) = <<>>

(* !tasks.length && <empty-state message> *)
EmptyMessage(ts) == Len(ts) = 0

Render(ts) ==
    [sections |-> Sections(groupedTasks(ts), 1), emptyMessage |-> EmptyMessage(ts)]

NothingRendered == [sections |-> <<>>, emptyMessage |-> FALSE]

----------------------------------------------------------------------------
(* Events *)

(* again: the same request as the event before it *)
Event(op, id) ==
    [op |-> op, id |-> id, again |-> FALSE]

Repeated(op, id) ==
    [op |-> op, id |-> id, again |-> lastEvent.op = op /\ lastEvent.id = id]

Init ==
    /\ phase = "init"
    /\ error = "none"
    /\ storage \in InitialStorage
    /\ tasks = <<>>
    /\ taskName = ""
    /\ priority = "Medium"
    /\ dueDate = ""
    /\ editingTask = NULL
    /\ now = 1
    /\ view = NothingRendered
    /\ lastEvent = Event("none", "")

(* An incremental save: only the task written last *)
SaveLastOnly(ts) ==
    Stored(JSONstringify(IF ts = <<>> THEN ts ELSE <<ts[Len(ts)]>>))

(* useEffect(() => localStorage.setItem("tasks", JSON.stringify(tasks)), [tasks]) *)
SaveTasks(ts) == Stored(JSONstringify(ts))

(* The lazy initial state of tasks: what the initializer returns or throws *)
LoadTasks(saved) ==
    IF saved.present /\ saved.value # <<>>
        THEN JSONparse(saved.value)
        ELSE [ok |-> TRUE, isArray |-> TRUE, items |-> <<>>]

(* First render of App and its mount effect *)
Mount ==
    /\ phase = "init"
    /\ LET loaded == LoadTasks(storage)
       IN  IF ~loaded.ok
               THEN /\ phase' = "crashed"
                    /\ error' = "SyntaxError"
                    /\ UNCHANGED <<tasks, storage, view>>
           ELSE IF ~loaded.isArray
               THEN /\ phase' = "crashed"
                    /\ error' = "TypeError"
                    /\ UNCHANGED <<tasks, storage, view>>
           ELSE /\ phase' = "ready"
                /\ error' = "none"
                /\ tasks' = loaded.items
                /\ storage' = SaveTasks(tasks')
                /\ view' = Render(tasks')
    /\ lastEvent' = Event("mount", "")
    /\ UNCHANGED <<taskName, priority, dueDate, editingTask, now>>

(* onChange of the name input, onValueChange of the select, onChange of the date input *)
setTaskName(v) ==
    /\ phase = "ready"
    /\ v # taskName
    /\ taskName' = v
    /\ lastEvent' = Event("input", "")
    /\ UNCHANGED <<phase, error, storage, tasks, priority, dueDate, editingTask, now, view>>

setPriority(v) ==
    /\ phase = "ready"
    /\ v # priority
    /\ priority' = v
    /\ lastEvent' = Event("input", "")
    /\ UNCHANGED <<phase, error, storage, tasks, taskName, dueDate, editingTask, now, view>>

setDueDate(v) ==
    /\ phase = "ready"
    /\ v # dueDate
    /\ dueDate' = v
    /\ lastEvent' = Event("input", "")
    /\ UNCHANGED <<phase, error, storage, tasks, taskName, priority, editingTask, now, view>>

(* resetForm without setPriority("Medium") *)
resetFormKeepsPriority ==
    /\ taskName' = ""
    /\ dueDate' = ""
    /\ editingTask' = NULL
    /\ UNCHANGED priority

(* resetForm without setEditingTask(null) *)
resetFormKeepsEditing ==
    /\ taskName' = ""
    /\ priority' = "Medium"
    /\ dueDate' = ""
    /\ UNCHANGED editingTask

resetForm ==
    /\ taskName' = ""
    /\ priority' = "Medium"
    /\ dueDate' = ""
    /\ editingTask' = NULL

RejectedIfBothEmpty(name, due) == name = "" /\ due = ""

(* if (!taskName) return; *)
RejectedNameOnly(name, due) == name = ""

(* if (!dueDate) return; *)
RejectedDateOnly(name, due) == due = ""

(* if (!taskName || !dueDate) return; *)
Rejected(name, due) == name = "" \/ due = ""

(* const newTask: Task = {...}, with t the value Date.now() returns *)
NewTask(editing, name, prio, due, t) ==
    Task(IF editing # NULL THEN editing[1].id ELSE NumToString(t), name, prio, due)

UpsertPrepend(prevTasks, editing, newTask) ==
    IF editing # NULL
        THEN [i \in DOMAIN prevTasks |->
                 IF prevTasks[i].id = editing[1].id THEN newTask ELSE prevTasks[i]]
        ELSE <<newTask>> \o prevTasks

UpsertMoveToEnd(prevTasks, editing, newTask) ==
    IF editing # NULL
        THEN IF \E i \in DOMAIN prevTasks : prevTasks[i].id = editing[1].id
                 THEN Append(SelectSeq(prevTasks, LAMBDA t : t.id # editing[1].id), newTask)
                 ELSE prevTasks
        ELSE Append(prevTasks, newTask)

(* An upsert that appends newTask when the editing id matches no task *)
UpsertOrAppend(prevTasks, editing, newTask) ==
    IF editing # NULL /\ \E i \in DOMAIN prevTasks : prevTasks[i].id = editing[1].id
        THEN [i \in DOMAIN prevTasks |->
                 IF prevTasks[i].id = editing[1].id THEN newTask ELSE prevTasks[i]]
        ELSE Append(prevTasks, newTask)

(* An upsert that puts newTask first when the editing id matches no task *)
UpsertOrInsert(prevTasks, editing, newTask) ==
    IF editing = NULL THEN Append(prevTasks, newTask)
    ELSE IF \E i \in DOMAIN prevTasks : prevTasks[i].id = editing[1].id
        THEN [i \in DOMAIN prevTasks |->
                 IF prevTasks[i].id = editing[1].id THEN newTask ELSE prevTasks[i]]
    ELSE <<newTask>> \o prevTasks

(* The updater handed to setTasks *)
Upsert(prevTasks, editing, newTask) ==
    IF editing # NULL
        THEN [i \in DOMAIN prevTasks |->
                 IF prevTasks[i].id = editing[1].id THEN newTask ELSE prevTasks[i]]
        ELSE Append(prevTasks, newTask)

(* Click on "Add Task" / "Update Task" *)
addOrUpdateTask ==
    /\ phase = "ready"
    /\ IF Rejected(taskName, dueDate)
           THEN /\ lastEvent' = Event("reject", "")
                /\ UNCHANGED <<storage, tasks, taskName, priority, dueDate,
                               editingTask, now, view>>
       ELSE IF editingTask # NULL
           THEN LET newTask == NewTask(editingTask, taskName, priority, dueDate, now)
                IN  /\ tasks' = Upsert(tasks, editingTask, newTask)
                    /\ resetForm
                    /\ storage' = SaveTasks(tasks')
                    /\ view' = Render(tasks')
                    /\ lastEvent' = Event("update", newTask.id)
                    /\ UNCHANGED now
       ELSE /\ Len(tasks) < MaxTasks
            /\ \E t \in now..MaxClock :
                 LET newTask == NewTask(editingTask, taskName, priority, dueDate, t)
                 IN  /\ now' = t
                     /\ tasks' = Upsert(tasks, editingTask, newTask)
                     /\ resetForm
                     /\ storage' = SaveTasks(tasks')
                     /\ view' = Render(tasks')
                     /\ lastEvent' = Event("create", newTask.id)
    /\ UNCHANGED <<phase, error>>

(* tasks.splice(tasks.findIndex(...), 1): removes the last task when none matches *)
WithoutIdSplice(ts, id) ==
    LET hits == {i \in DOMAIN ts : ts[i].id = id}
        at   == IF hits = {} THEN Len(ts) ELSE CHOOSE i \in hits : \A j \in hits : i <= j
    IN  IF ts = <<>> THEN ts
        ELSE SubSeq(ts, 1, at - 1) \o SubSeq(ts, at + 1, Len(ts))

(* tasks.slice(0, tasks.findIndex(...)): drops the match and all after it *)
WithoutIdFromIndex(ts, id) ==
    LET hits == {i \in DOMAIN ts : ts[i].id = id}
    IN  IF hits = {} THEN ts
        ELSE SubSeq(ts, 1, (CHOOSE i \in hits : \A j \in hits : i <= j) - 1)

(* tasks.filter((task) => task.id !== id) *)
WithoutId(ts, id) == SelectSeq(ts, LAMBDA task : task.id # id)

(* A delete that also leaves the edit of the deleted task *)
deleteTaskEndsEditing(id) ==
    /\ phase = "ready"
    /\ tasks' = SelectSeq(tasks, LAMBDA task : task.id # id)
    /\ storage' = Stored(JSONstringify(tasks'))
    /\ view' = Render(tasks')
    /\ lastEvent' = Repeated("delete", id)
    /\ IF editingTask # NULL /\ editingTask[1].id = id
           THEN resetForm
           ELSE UNCHANGED <<taskName, priority, dueDate, editingTask>>
    /\ UNCHANGED <<phase, error, now>>

deleteTask(id) ==
    /\ phase = "ready"
    /\ tasks' = WithoutId(tasks, id)
    /\ storage' = SaveTasks(tasks')
    /\ view' = Render(tasks')
    /\ lastEvent' = Repeated("delete", id)
    /\ UNCHANGED <<phase, error, taskName, priority, dueDate, editingTask, now>>

(* The tasks that have a TaskCard, each with an Edit button *)
CardTasks == UNION {Range(section.tasks) : section \in Range(view.sections)}

(* editTask without setPriority(task.priority) *)
editTaskKeepsPriority(task) ==
    /\ phase = "ready"
    /\ editingTask' = <<task>>
    /\ taskName' = task.name
    /\ dueDate' = task.dueDate
    /\ lastEvent' = Event("edit", task.id)
    /\ UNCHANGED <<phase, error, storage, tasks, now, view, priority>>

editTask(task) ==
    /\ phase = "ready"
    /\ editingTask' = <<task>>
    /\ taskName' = task.name
    /\ priority' = task.priority
    /\ dueDate' = task.dueDate
    /\ lastEvent' = Event("edit", task.id)
    /\ UNCHANGED <<phase, error, storage, tasks, now, view>>

(* Click on "Cancel", rendered only while editingTask is set *)
Cancel ==
    /\ phase = "ready"
    /\ editingTask # NULL
    /\ resetForm
    /\ lastEvent' = Event("cancel", "")
    /\ UNCHANGED <<phase, error, storage, tasks, now, view>>

Next ==
    \/ Mount
    \/ \E v \in Names : setTaskName(v)
    \/ \E v \in Priorities : setPriority(v)
    \/ \E v \in Dates : setDueDate(v)
    \/ addOrUpdateTask
    \/ \E id \in IdUniverse : deleteTask(id)
    \/ \E task \in CardTasks : editTask(task)
    \/ Cancel

Spec == Init /\ [][Next]_vars

(* The same program started with nothing stored under "tasks" *)
InitEmpty == Init /\ storage = Absent

SpecEmpty == InitEmpty /\ [][Next]_vars

----------------------------------------------------------------------------
(* Properties *)

Ready == phase = "ready"

SubmitOps == {"create", "update", "reject"}

ValidForm == taskName # "" /\ dueDate # ""

Idle == editingTask = NULL

HasId(ts, id) == \E i \in DOMAIN ts : ts[i].id = id

(* C1: a valid submit in Idle adds exactly one task, at the end of the   *)
(* list, with the form's name, priority and dueDate, and every task that *)
(* was in the list keeps its fields and its position.                    *)
C1_CreateAppends ==
    [][ (lastEvent'.op \in SubmitOps /\ ValidForm /\ Idle)
        => /\ Len(tasks') = Len(tasks) + 1
           /\ tasks'[Len(tasks')].name = taskName
           /\ tasks'[Len(tasks')].priority = priority
           /\ tasks'[Len(tasks')].dueDate = dueDate
           /\ \A i \in DOMAIN tasks : tasks'[i] = tasks[i] ]_vars

C1_Witness ==
    /\ Ready
    /\ lastEvent.op = "create"
    /\ Len(tasks) = 2
    /\ tasks[1] = SavedTask
    /\ tasks[2] = Task(lastEvent.id, "a", "High", "d")

(* C2: a valid submit while editing a task whose id is in the list keeps *)
(* the length of the list, puts the form's name, priority and dueDate in *)
(* the task matched by that id, at the same index and under the same id, *)
(* and leaves every task with another id as it was.                      *)
C2_UpdateInPlace ==
    [][ (lastEvent'.op \in SubmitOps /\ ValidForm /\ ~Idle
            /\ HasId(tasks, editingTask[1].id))
        => /\ Len(tasks') = Len(tasks)
           /\ \A i \in DOMAIN tasks :
                 IF tasks[i].id = editingTask[1].id
                     THEN tasks'[i] = Task(tasks[i].id, taskName, priority, dueDate)
                     ELSE tasks'[i] = tasks[i] ]_vars

C2_Witness ==
    /\ Ready
    /\ lastEvent = Event("update", "0")
    /\ Len(tasks) = 2
    /\ tasks[1] = Task("0", "a", "High", "d")
    /\ tasks[2].id = "1"

(* C3: after deleteTask(id) no task of the list has that id, and the    *)
(* same deleteTask(id) once more leaves the list as the first left it.  *)
C3_DeleteRemovesAndIsIdempotent ==
    [][ lastEvent'.op = "delete"
        => /\ ~HasId(tasks', lastEvent'.id)
           /\ lastEvent'.again => tasks' = tasks ]_vars

C3_Witness ==
    /\ Ready
    /\ lastEvent.op = "delete"
    /\ lastEvent.again
    /\ ~HasId(tasks, lastEvent.id)
    /\ Len(tasks) = 1

(* C4: a submit with an empty name or an empty dueDate, in Idle or while *)
(* editing, leaves the task list unchanged.                              *)
C4_InvalidSubmitNoMutation ==
    [][ (lastEvent'.op \in SubmitOps /\ ~ValidForm) => tasks' = tasks ]_vars

C4_Witness ==
    /\ Ready
    /\ lastEvent.op = "reject"
    /\ taskName = ""
    /\ dueDate # ""
    /\ ~Idle
    /\ Len(tasks) = 1

(* C5: started with nothing stored, no two tasks of the list ever have *)
(* the same id.                                                        *)
C5_UniqueIds ==
    \A i, j \in DOMAIN tasks : i # j => tasks[i].id # tasks[j].id

(* C6: once an event is handled, the value under "tasks" is the        *)
(* serialization of the whole current list: parsing it gives the same  *)
(* tasks in the same order.                                            *)
C6_StorageMirrorsTasks ==
    Ready => /\ storage.present
             /\ JSONparse(storage.value) =
                    [ok |-> TRUE, isArray |-> TRUE, items |-> tasks]

C6_Witness ==
    /\ Ready
    /\ lastEvent.op = "update"
    /\ Len(tasks) = 2
    /\ tasks[1].priority # tasks[2].priority
    /\ storage.value = <<"[">> \o StringifyTask(tasks[1]) \o <<",">>
                              \o StringifyTask(tasks[2]) \o <<"]">>

(* A stored value that is a serialized array of Tasks *)
WellFormedSaved(saved) ==
    /\ saved.present
    /\ JSONparse(saved.value).ok
    /\ JSONparse(saved.value).isArray
    /\ \A i \in DOMAIN JSONparse(saved.value).items :
          JSONparse(saved.value).items[i].priority \in Priorities

(* C7: the load at startup raises nothing; it gives the stored array   *)
(* when the stored value is a serialized task array, and the empty     *)
(* list when the value is absent, unparsable or structurally invalid.  *)
C7_LoadFailsSoft ==
    [][ lastEvent'.op = "mount"
        => /\ error' = "none"
           /\ phase' = "ready"
           /\ tasks' = IF WellFormedSaved(storage)
                           THEN JSONparse(storage.value).items
                           ELSE <<>> ]_vars

Count(seq, x) == Cardinality({i \in DOMAIN seq : seq[i] = x})

SectionsOf(p) == {k \in DOMAIN view.sections : view.sections[k].priorityLevel = p}

Bucket(p) ==
    IF SectionsOf(p) = {} THEN <<>>
    ELSE view.sections[CHOOSE k \in SectionsOf(p) : TRUE].tasks

(* C8: for a non-empty list of Tasks, every task is in the bucket of   *)
(* its own priority and in no other, and the High, Medium and Low      *)
(* buckets together hold each task of the list as many times as the    *)
(* list does.                                                          *)
C8_GroupingIsPartition ==
    (Ready /\ tasks # <<>> /\ \A i \in DOMAIN tasks : tasks[i].priority \in Priorities)
    => /\ \A p \in Priorities :
            /\ Cardinality(SectionsOf(p)) <= 1
            /\ \A k \in DOMAIN Bucket(p) : Bucket(p)[k].priority = p
       /\ \A x \in Range(tasks) \cup UNION {Range(Bucket(p)) : p \in Priorities} :
            Count(tasks, x) =
                Count(Bucket("High"), x) + Count(Bucket("Medium"), x)
                    + Count(Bucket("Low"), x)

C8_Witness ==
    /\ Ready
    /\ Len(tasks) = 2
    /\ tasks[1].priority = "Low"
    /\ tasks[2].priority = "High"
    /\ Bucket("Low") = <<tasks[1]>>
    /\ Bucket("High") = <<tasks[2]>>
    /\ Bucket("Medium") = <<>>

SectionLabels == [k \in DOMAIN view.sections |-> view.sections[k].priorityLevel]

(* C9: the sections are listed High, Medium, Low, whatever the order   *)
(* of the tasks, and a priority has a section exactly when some task   *)
(* of the list has that priority.                                      *)
C9_FixedBucketOrder ==
    Ready => SectionLabels =
                 SelectSeq(<<"High", "Medium", "Low">>,
                           LAMBDA p : \E i \in DOMAIN tasks : tasks[i].priority = p)

C9_Witness ==
    /\ Ready
    /\ Len(tasks) = 2
    /\ tasks[1].priority = "Medium"
    /\ tasks[2].priority = "High"
    /\ SectionLabels = <<"High", "Medium">>

(* C10: while the component is mounted, the empty-state message is     *)
(* rendered exactly when the list has no task.                         *)
C10_EmptyMessageIffNoTasks ==
    Ready => (view.emptyMessage <=> Len(tasks) = 0)

C10_Witness ==
    /\ Ready
    /\ lastEvent.op = "delete"
    /\ tasks = <<>>
    /\ view.emptyMessage

FormAtDefaults == taskName = "" /\ priority = "Medium" /\ dueDate = ""

(* C11: Cancel, offered while editing, ends in Idle with the form at    *)
(* name "", priority Medium, dueDate "", whatever the fields held, and  *)
(* changes neither the task list nor the stored value.                  *)
C11_CancelReturnsToIdle ==
    [][ lastEvent'.op = "cancel"
        => /\ ~Idle
           /\ Idle'
           /\ FormAtDefaults'
           /\ tasks' = tasks
           /\ storage' = storage ]_vars

C11_Witness ==
    /\ Ready
    /\ lastEvent.op = "cancel"
    /\ Idle
    /\ FormAtDefaults
    /\ Len(tasks) = 2
    /\ JSONparse(storage.value).items = tasks

(* C12: every submit with a non-empty name and dueDate, on the create   *)
(* path and on the update path, ends in Idle with the form at its       *)
(* defaults.                                                            *)
C12_ValidSubmitReturnsToIdle ==
    [][ (lastEvent'.op \in SubmitOps /\ ValidForm) => (Idle' /\ FormAtDefaults') ]_vars

C12_Witness ==
    /\ Ready
    /\ lastEvent.op = "update"
    /\ HasId(tasks, lastEvent.id)
    /\ Idle
    /\ FormAtDefaults

(* C13: editTask on a task T of the list, from Idle or from Editing,    *)
(* ends in Editing(T) with the form holding T's name, priority and      *)
(* dueDate, and leaves the task list unchanged.                         *)
C13_EditSelectsTask ==
    [][ lastEvent'.op = "edit"
        => /\ tasks' = tasks
           /\ \E i \in DOMAIN tasks :
                 /\ tasks[i].id = lastEvent'.id
                 /\ editingTask' = <<tasks[i]>>
                 /\ taskName' = tasks[i].name
                 /\ priority' = tasks[i].priority
                 /\ dueDate' = tasks[i].dueDate ]_vars

C13_Witness ==
    /\ Ready
    /\ lastEvent.op = "edit"
    /\ Len(tasks) = 2
    /\ tasks[1].id # tasks[2].id
    /\ tasks[2].priority = "High"
    /\ editingTask = <<tasks[2]>>
    /\ taskName = tasks[2].name
    /\ priority = "High"
    /\ dueDate = tasks[2].dueDate

(* The edit state refers to a task id that no task of the list has *)
StaleEdit == ~Idle /\ ~HasId(tasks, editingTask[1].id)

(* C14, as claimed: a valid submit while the editing id matches no task *)
(* appends a new task, so the list grows by one.                        *)
C14_StaleSubmitAppends ==
    [][ (lastEvent'.op \in SubmitOps /\ ValidForm /\ StaleEdit)
        => /\ Len(tasks') = Len(tasks) + 1
           /\ tasks'[Len(tasks')].name = taskName ]_vars

(* C14, amended: a valid submit while the editing id matches no task    *)
(* appends nothing; the task list, and so the count, stay as they were. *)
C14_StaleSubmitLeavesList ==
    [][ (lastEvent'.op \in SubmitOps /\ ValidForm /\ StaleEdit)
        => tasks' = tasks ]_vars

C14_Witness ==
    /\ Ready
    /\ lastEvent = Event("update", "1")
    /\ Len(tasks) = 1
    /\ ~HasId(tasks, "1")
    /\ Idle

(* C15: a task id that is not in the list comes into it only by a       *)
(* create whose freshly generated id is that id; no edit, cancel,       *)
(* delete or update puts it back, and a valid submit made while the     *)
(* edit state refers to a task no longer in the list leaves the list    *)
(* unchanged.                                                           *)
C15_DeletedNeverResurrected ==
    [][ Ready
        => /\ \A id \in IdUniverse :
                (~HasId(tasks, id) /\ HasId(tasks', id))
                => /\ lastEvent'.op \in SubmitOps
                   /\ ValidForm
                   /\ Idle
                   /\ id = NumToString(now')
                   /\ tasks'[Len(tasks')].id = id
           /\ (lastEvent'.op \in SubmitOps /\ StaleEdit) => tasks' = tasks ]_vars

C15_Witness ==
    /\ Ready
    /\ lastEvent = Event("update", "0")
    /\ ~HasId(tasks, "0")
    /\ Len(tasks) = 1
    /\ Idle

(* The indices of the tasks whose id is not id, and the place of index i among them *)
KeptBy(id) == {i \in DOMAIN tasks : tasks[i].id # id}

RankIn(kept, i) == Cardinality({j \in kept : j <= i})

C17_BucketKeepsListOrder ==
    Ready => \A k \in DOMAIN view.sections :
                 view.sections[k].tasks =
                     SelectSeq(tasks,
                               LAMBDA t : t.priority = view.sections[k].priorityLevel)

C17_Witness ==
    /\ Ready
    /\ lastEvent.op = "update"
    /\ Len(tasks) = 2
    /\ tasks[1].id = lastEvent.id
    /\ tasks[1].id # tasks[2].id
    /\ tasks[1].priority = "High"
    /\ tasks[2].priority = "High"
    /\ Bucket("High") = tasks

(* C18: started with nothing stored, every task of the list has a       *)
(* non-empty name, a non-empty dueDate and a priority among Low,        *)
(* Medium and High.                                                     *)
C18_TasksWellFormed ==
    \A i \in DOMAIN tasks :
        /\ tasks[i].name # ""
        /\ tasks[i].dueDate # ""
        /\ tasks[i].priority \in {"Low", "Medium", "High"}

C18_Witness ==
    /\ Ready
    /\ lastEvent.op = "update"
    /\ Len(tasks) = 2
    /\ HasId(tasks, lastEvent.id)
    /\ tasks[1].priority # tasks[2].priority

(* C19: a submit with an empty name or an empty dueDate leaves the      *)
(* pending name, priority and dueDate and the edit state as they were.  *)
C19_RejectedSubmitKeepsForm ==
    [][ (lastEvent'.op \in SubmitOps /\ ~ValidForm)
        => /\ taskName' = taskName
           /\ priority' = priority
           /\ dueDate' = dueDate
           /\ editingTask' = editingTask ]_vars

C19_Witness ==
    /\ Ready
    /\ lastEvent.op = "reject"
    /\ ~Idle
    /\ HasId(tasks, editingTask[1].id)
    /\ taskName = "a"
    /\ dueDate = ""
    /\ priority # editingTask[1].priority

(* C20: deleteTask of the task being edited leaves the edit state and   *)
(* the pending form values as they were, so the edit state refers to an *)
(* id that no task of the list has.                                     *)
C20_DeleteKeepsEditing ==
    [][ (lastEvent'.op = "delete" /\ ~Idle /\ editingTask[1].id = lastEvent'.id)
        => /\ editingTask' = editingTask
           /\ taskName' = taskName
           /\ priority' = priority
           /\ dueDate' = dueDate
           /\ StaleEdit' ]_vars

C20_Witness ==
    /\ Ready
    /\ lastEvent.op = "delete"
    /\ StaleEdit
    /\ editingTask[1].id = lastEvent.id
    /\ editingTask = <<SavedTask>>
    /\ taskName = "a"
    /\ priority = "High"
    /\ Len(tasks) = 1

====
